---- MODULE Spec2Model ----
(***************************************************************************)
(* A model of py_utils: the Logger facade and the log_function decorator   *)
(* (src/py_utils/logger.py) and the Timer context manager                  *)
(* (src/py_utils/timer.py).                                                *)
(*                                                                         *)
(* Text is a sequence of one-character strings, so that formatting,        *)
(* concatenation and line splitting are computed and not assumed.          *)
(***************************************************************************)
EXTENDS Integers, Sequences, FiniteSets, TLC

\* ------------------------------------------------------------------ bounds
\* Logging calls (debug/info/.../processing_log) in one run.
MaxLog == 1
\* Calls of a function wrapped by log_function in one run.
MaxCalls == 2
\* Scopes one Timer guards, one after the other, in one run.
MaxUses == 1
\* Calls of Timer.update in one run.
MaxUpdates == 2
\* The longest time, in clock ticks, a guarded block takes.
MaxTime == 1

\* ------------------------------------------------------------------ inputs
\* Python's None, for the optional string-valued arguments and attributes.
None == "None"

\* The Logger objects of a run: the module-level `logger` and one that a
\* caller constructs (the docstring's custom_logger).
Default == "logger"
InstNames == {Default, "custom_logger"}

\* Paths a caller may pass as log_file.
Paths == {"p", "q"}

\* The numeric levels of the five leveled entries of Logger
\* (debug, info, warning, error, critical).
Levels == {10, 20, 30, 40, 50}

\* Levels a caller may pass to the constructor.
CtorLevels == {10, 20, 30}

\* Level names a caller may pass to set_params, in mixed case, and one name
\* the logging module does not define.
LevelArgs == {"debug", "Warning", "VERBOSE"}

\* Messages a caller may log through the leveled entries.
Msgs == {<<"a">>}

\* Messages a caller may pass to processing_log: one line, and two lines.
Banners == {<<"a">>, <<"b", "\n", "c">>}

\* ------------------------------------------------------------- pure helpers
\* str.upper() on the level names of LevelArgs.
Upper(name) ==
    CASE name = "debug" -> "DEBUG"
      [] name = "Warning" -> "WARNING"
      [] name = "critical" -> "CRITICAL"
      [] OTHER -> name

\* getattr(logging, log_level.upper(), logging.INFO)
LevelValue(name) ==
    CASE Upper(name) = "DEBUG" -> 10
      [] Upper(name) = "INFO" -> 20
      [] Upper(name) = "WARNING" -> 30
      [] Upper(name) = "ERROR" -> 40
      [] Upper(name) = "CRITICAL" -> 50
      [] OTHER -> 20

\* %(levelname)s of a record of level l.
LevelName(l) ==
    CASE l = 10 -> <<"D", "E", "B", "U", "G">>
      [] l = 20 -> <<"I", "N", "F", "O">>
      [] l = 30 -> <<"W", "A", "R", "N", "I", "N", "G">>
      [] l = 40 -> <<"E", "R", "R", "O", "R">>
      [] OTHER -> <<"C", "R", "I", "T", "I", "C", "A", "L">>

\* %(asctime)s: the time stamp, one opaque token without a line break.
AscTime == <<"<asctime>">>

\* logging.Formatter("%(asctime)s - %(levelname)s - %(message)s").format
Format(l, msg) ==
    AscTime \o <<" ", "-", " ">> \o LevelName(l) \o <<" ", "-", " ">> \o msg

\* The separator line of processing_log.
SepWidth == 40
Separator == [k \in 1..SepWidth |-> "="]

\* An outmsg without the leading line break.
ProcessingTextNoLead(msg) ==
    Separator \o <<"\n">> \o msg \o <<"\n">> \o Separator

\* outmsg of processing_log.
ProcessingText(msg) ==
    <<"\n">> \o Separator \o <<"\n">> \o msg \o <<"\n">> \o Separator

\* The lines of a text: str.split("\n").
RECURSIVE SplitLines(_)
SplitLines(t) ==
    IF \A k \in 1..Len(t) : t[k] # "\n"
    THEN <<t>>
    ELSE LET k == CHOOSE j \in 1..Len(t) :
                     t[j] = "\n" /\ \A i \in 1..(j - 1) : t[i] # "\n"
         IN <<SubSeq(t, 1, k - 1)>> \o SplitLines(SubSeq(t, k + 1, Len(t)))

\* ------------------------------------------------------------------- state
VARIABLES
    \* logging.getLogger(__name__): ONE logging.Logger object per process,
    \* whatever the number of Logger instances that wrap it.
    level,        \* its level
    handlers,     \* its handlers, in the order added
    log_file,     \* log_file[i]: the attribute self.log_file of instance i
    console,      \* what the StreamHandlers wrote to sys.stderr, one entry per record
    files,        \* files[p]: the content of file p, one entry per record
    nlog          \* logging calls made

loggerVars == <<level, handlers, log_file, console, files, nlog>>

\* The Logger instances constructed so far.
Instances == DOMAIN log_file

IsFile(h) == h.kind = "file"

FileHandlers == {k \in 1..Len(handlers) : IsFile(handlers[k])}

StreamHandlers == {k \in 1..Len(handlers) : ~IsFile(handlers[k])}

\* ---------------------------------------------------------- Logger methods
\* logging.StreamHandler() with setLevel(lvl), made by instance `owner`.
NewStreamHandler(lvl, owner) ==
    [kind |-> "stream", level |-> lvl, path |-> None, owner |-> owner]

\* logging.FileHandler(log_file) with setLevel(logging.DEBUG).
NewFileHandler(p) ==
    [kind |-> "file", level |-> 10, path |-> p, owner |-> None]

\* A set_log_file that adds a FileHandler whatever the list holds.
SetLogFileHandlersAlways(hs, p) == Append(hs, [kind |-> "file", level |-> 10, path |-> p, owner |-> None])

\* set_log_file, on the handler list hs: a FileHandler for p is added only
\* if hs holds no FileHandler at all.
SetLogFileHandlers(hs, p) ==
    IF \E k \in 1..Len(hs) : IsFile(hs[k])
    THEN hs
    ELSE Append(hs, NewFileHandler(p))

\* set_log_file, on the files: open(p, "w") truncates p.
Truncate(fs, p) == [fs EXCEPT ![p] = <<>>]

\* clear_log_file, on the handler list: every FileHandler is removed.
ClearHandlers(hs) == SelectSeq(hs, LAMBDA h : ~IsFile(h))

\* for handler in self.logger.handlers: handler.setLevel(v)
SetHandlerLevels(hs, v) == [k \in 1..Len(hs) |-> [hs[k] EXCEPT !.level = v]]

\* logging.Logger.callHandlers: each handler whose level the record reaches
\* emits the formatted record, a StreamHandler to the console and a
\* FileHandler to its file.
RECURSIVE CallHandlers(_, _, _, _)
CallHandlers(hs, out, l, text) ==
    IF hs = <<>>
    THEN out
    ELSE LET h == Head(hs)
             next ==
                 IF l < h.level
                 THEN out
                 ELSE IF IsFile(h)
                      THEN [out EXCEPT !.files[h.path] = Append(@, Format(l, text))]
                      ELSE [out EXCEPT !.console = Append(@, Format(l, text))]
         IN CallHandlers(Tail(hs), next, l, text)

\* logging.Logger.log: the logger's own level first, then the handlers.
Handle(lv, hs, out, l, text) ==
    IF l < lv THEN out ELSE CallHandlers(hs, out, l, text)

\* Logger.__init__(log_file, level)
New(i, file, lvl) ==
    /\ i \notin Instances
    /\ LET hs == Append(handlers, NewStreamHandler(lvl, i))
       IN /\ level' = lvl
          /\ log_file' = log_file @@ (i :> file)
          /\ IF file # None
             THEN /\ handlers' = SetLogFileHandlers(hs, file)
                  /\ files' = Truncate(files, file)
             ELSE /\ handlers' = hs
                  /\ files' = files
    /\ UNCHANGED <<console, nlog>>

\* Logger.set_log_file(log_file)
SetLogFile(i, p) ==
    /\ log_file' = [log_file EXCEPT ![i] = p]
    /\ files' = Truncate(files, p)
    /\ handlers' = SetLogFileHandlers(handlers, p)
    /\ UNCHANGED <<level, console, nlog>>

\* Logger.clear_log_file()
ClearLogFile(i) ==
    /\ log_file' = [log_file EXCEPT ![i] = None]
    /\ handlers' = ClearHandlers(handlers)
    /\ UNCHANGED <<level, console, files, nlog>>

\* Logger.set_params(log_level, log_file)
SetParams(i, name, file) ==
    /\ level' = LevelValue(name)
    /\ log_file' = [log_file EXCEPT ![i] = file]
    /\ LET hs == SetHandlerLevels(handlers, LevelValue(name))
       IN IF file # None
          THEN /\ handlers' = SetLogFileHandlers(hs, file)
               /\ files' = Truncate(files, file)
          ELSE /\ handlers' = ClearHandlers(hs)
               /\ files' = files
    /\ UNCHANGED <<console, nlog>>

\* Logger.debug / info / warning / error / critical (msg), by its level.
Log(i, l, msg) ==
    /\ nlog < MaxLog
    /\ nlog' = nlog + 1
    /\ LET out == Handle(level, handlers, [console |-> console, files |-> files], l, msg)
       IN /\ console' = out.console
          /\ files' = out.files
    /\ UNCHANGED <<level, handlers, log_file>>

\* Logger.processing_log(msg)
ProcessingLog(i, msg) ==
    /\ nlog < MaxLog
    /\ nlog' = nlog + 1
    /\ LET out == Handle(level, handlers, [console |-> console, files |-> files],
                         20, ProcessingText(msg))
       IN /\ console' = out.console
          /\ files' = out.files
    /\ UNCHANGED <<level, handlers, log_file>>

\* The module's import: logger = Logger(), with the defaults log_file=None,
\* level=logging.INFO.
LoggerInit ==
    /\ level = 20
    /\ handlers = <<NewStreamHandler(20, Default)>>
    /\ log_file = (Default :> None)
    /\ console = <<>>
    /\ files = [p \in Paths |-> <<>>]
    /\ nlog = 0

\* ------------------------------------------------------------ log_function
\* The functions a caller wraps: add returns, div raises on a zero divisor.
Funcs == {"add", "div"}

\* The argument tuples of a call.
Args == {<<2, 3>>, <<6, 2>>, <<4, 0>>}

\* func=None: log_function called with keywords only.
NoFunc == "None"

\* func.__module__
ModuleOf(f) == <<"a", "p", "p">>

\* func.__name__
NameOf(f) == IF f = "add" THEN <<"a", "d", "d">> ELSE <<"d", "i", "v">>

\* What func(*args) does: it returns a value or raises.
Apply(f, args) ==
    IF f = "add"
    THEN [kind |-> "return", value |-> args[1] + args[2], exc |-> None]
    ELSE IF args[2] = 0
         THEN [kind |-> "raise", value |-> 0, exc |-> "ZeroDivisionError"]
         ELSE [kind |-> "return", value |-> args[1] \div args[2], exc |-> None]

VARIABLES
    trace,        \* what the last wrapper call did, in order
    result,       \* how the last wrapper call ended
    call,         \* the last wrapper call: the closure and its arguments
    ncall         \* wrapper calls made

decoVars == <<trace, result, call, ncall>>

\* log_function(func, logger_instance=...): the wrapper closure, or with
\* func=None the lambda that waits for the function.
LogFunction(func, logger_instance) ==
    IF func = NoFunc
    THEN [kind |-> "lambda", func |-> NoFunc, logger_instance |-> logger_instance]
    ELSE [kind |-> "wrapper", func |-> func, logger_instance |-> logger_instance]

\* lambda f: log_function(f, logger_instance=logger_instance)
ApplyLambda(d, f) == LogFunction(f, d.logger_instance)

\* The shapes of decoration: @log_function ("direct"),
\* @log_function(logger_instance=x) ("keyword") and
\* log_function(f, logger_instance=x) ("both").
Shapes == {"direct", "keyword", "both"}

Decorate(shape, f, logger_instance) ==
    CASE shape = "direct" -> LogFunction(f, None)
      [] shape = "keyword" -> ApplyLambda(LogFunction(NoFunc, logger_instance), f)
      [] OTHER -> LogFunction(f, logger_instance)

\* A wrapper that always takes the module-level logger.
LoggerToUseDefault(logger_instance) == Default

\* logger_to_use = logger_instance if logger_instance else logger
LoggerToUse(logger_instance) ==
    IF logger_instance # None THEN logger_instance ELSE Default

\* f"{module_name}.{func.__name__} BEGIN"
BeginText(f) == ModuleOf(f) \o <<".">> \o NameOf(f) \o <<" ", "B", "E", "G", "I", "N">>

\* f"{module_name}.{func.__name__} END"
EndText(f) == ModuleOf(f) \o <<".">> \o NameOf(f) \o <<" ", "E", "N", "D">>

DebugEvent(lg, text) ==
    [ev |-> "debug", logger |-> lg, text |-> text, func |-> NoFunc, args |-> <<>>]

InvokeEvent(f, args) ==
    [ev |-> "invoke", logger |-> None, text |-> <<>>, func |-> f, args |-> args]

\* A wrapper that logs END in a finally clause.
WrapperTraceFinally(w, args) ==
    LET lg == LoggerToUse(w.logger_instance)
    IN <<DebugEvent(lg, BeginText(w.func)), InvokeEvent(w.func, args),
         DebugEvent(lg, EndText(w.func))>>

\* The calls wrapper(*args) makes, in order: the END call is reached only
\* when func returns.
WrapperTrace(w, args) ==
    LET lg == LoggerToUse(w.logger_instance)
    IN <<DebugEvent(lg, BeginText(w.func)), InvokeEvent(w.func, args)>>
       \o (IF Apply(w.func, args).kind = "return"
           THEN <<DebugEvent(lg, EndText(w.func))>>
           ELSE <<>>)

\* How wrapper(*args) ends: `return result`, or the exception of func.
WrapperResult(w, args) == Apply(w.func, args)

\* Logger.debug(msg) for every debug call of a trace, on the logger's sinks.
RECURSIVE Emit(_, _)
Emit(tr, out) ==
    IF tr = <<>>
    THEN out
    ELSE Emit(Tail(tr),
              IF Head(tr).ev = "debug"
              THEN Handle(level, handlers, out, 10, Head(tr).text)
              ELSE out)

\* wrapper(*args)
CallWrapper(shape, f, logger_instance, args) ==
    /\ ncall < MaxCalls
    /\ ncall' = ncall + 1
    /\ LET w == Decorate(shape, f, logger_instance)
           out == Emit(WrapperTrace(w, args), [console |-> console, files |-> files])
       IN /\ call' = [shape |-> shape, func |-> f, args |-> args,
                      logger_instance |-> IF shape = "direct" THEN None
                                          ELSE logger_instance]
          /\ trace' = WrapperTrace(w, args)
          /\ result' = WrapperResult(w, args)
          /\ console' = out.console
          /\ files' = out.files
    /\ UNCHANGED <<level, handlers, log_file, nlog>>

NoCall == [shape |-> None, func |-> NoFunc, logger_instance |-> None, args |-> <<>>]

DecoInit ==
    /\ trace = <<>>
    /\ result = [kind |-> None, value |-> 0, exc |-> None]
    /\ call = NoCall
    /\ ncall = 0

\* -------------------------------------------------------------------- Timer
\* total: Optional[int], as a sequence: <<>> is None and <<n>> is n.
Totals == {<<>>, <<0>>, <<3>>}

\* The loggers a caller may hand to a Timer.
TimerLoggers == {"L1", "L2"}

\* What the guarded block may raise; None is a normal completion.
Excs == {"ValueError", "KeyboardInterrupt"}

\* Steps of one update call.
Steps == {1, 2}

\* progress_bar = None
NoBar == 0

VARIABLES
    t_state,      \* Created, Running or Finished
    total,        \* self.total
    t_logger,     \* self.logger
    ctor_logger,  \* the logger argument of __init__
    progress_bar, \* self.progress_bar: NoBar or the index of a bar
    bars,         \* the tqdm objects made so far
    start,        \* self.start
    end,          \* self.end
    elapsed,      \* self.elapsed
    now,          \* the last reading of time.time()
    events,       \* the calls made on the progress bars, the logger and stdout
    raised,       \* what the guarded block raised, None if nothing
    outcome,      \* what leaves the with statement, None if nothing
    uses,         \* scopes entered
    nupd          \* update calls made

timerVars == <<t_state, total, t_logger, ctor_logger, progress_bar, bars, start,
               end, elapsed, now, events, raised, outcome, uses, nupd>>

\* The attributes of the Timer object.
timerAttrs == <<total, t_logger, progress_bar, start, end, elapsed>>

TimerEvent(ev, bar, n, dest, secs) ==
    [ev |-> ev, bar |-> bar, n |-> n, dest |-> dest, elapsed |-> secs]

\* tqdm(total=self.total, desc=self.name)
TqdmNew(t) == [total |-> t, n |-> 0, disable |-> FALSE]

\* tqdm.update(n): nothing on a closed bar.
TqdmUpdate(bar, n) == IF bar.disable THEN bar ELSE [bar EXCEPT !.n = @ + n]

\* tqdm.close()
TqdmClose(bar) == [bar EXCEPT !.disable = TRUE]

\* An __exit__ that always prints.
ReportDestStdout(lg) == "stdout"

\* Where __exit__ sends the report: `if self.logger:`.
ReportDest(lg) == IF lg # None THEN lg ELSE "stdout"

\* An __exit__ that returns True.
ExitReturnTrue == TRUE

\* How __exit__ sends the report: self.logger.info(...) or print(...).
ReportCall(lg) == IF lg # None THEN "info" ELSE "print"

\* What __exit__ returns: it has no return statement, so None (false).
ExitReturn == FALSE

\* The with statement: an exception of the block is dropped only when
\* __exit__ returns a true value.
WithOutcome(exc, ret) == IF exc # None /\ ret THEN None ELSE exc

\* Timer.__init__(name, total, logger)
TimerInitWith(t, lg) ==
    /\ t_state = "Created"
    /\ total = t
    /\ t_logger = lg
    /\ ctor_logger = lg
    /\ progress_bar = NoBar
    /\ bars = <<>>
    /\ start = -1
    /\ end = -1
    /\ elapsed = -1
    /\ now = 0
    /\ events = <<>>
    /\ raised = None
    /\ outcome = None
    /\ uses = 0
    /\ nupd = 0

TimerInit == \E t \in Totals, lg \in TimerLoggers \cup {None} : TimerInitWith(t, lg)

\* Timer.set_logger(logger)
SetLogger(lg) ==
    /\ t_logger' = lg
    /\ UNCHANGED <<t_state, total, ctor_logger, progress_bar, bars, start, end,
                   elapsed, now, events, raised, outcome, uses, nupd>>

\* Timer.__enter__, at the start of a with statement. A Timer guards one
\* scope at a time: it is not entered again before its scope has ended.
Enter ==
    /\ t_state # "Running"
    /\ uses < MaxUses
    /\ uses' = uses + 1
    /\ t_state' = "Running"
    /\ start' = now
    /\ IF total # <<>>
       THEN /\ bars' = Append(bars, TqdmNew(total[1]))
            /\ progress_bar' = Len(bars) + 1
            /\ events' = Append(events, TimerEvent("create", Len(bars) + 1, 0, None, 0))
       ELSE UNCHANGED <<bars, progress_bar, events>>
    /\ raised' = None
    /\ outcome' = None
    /\ UNCHANGED <<total, t_logger, ctor_logger, end, elapsed, now, nupd>>

\* Timer.update(n)
Update(n) ==
    /\ nupd < MaxUpdates
    /\ nupd' = nupd + 1
    /\ IF progress_bar # NoBar
       THEN /\ bars' = [bars EXCEPT ![progress_bar] = TqdmUpdate(@, n)]
            /\ events' = Append(events, TimerEvent("advance", progress_bar, n, None, 0))
       ELSE UNCHANGED <<bars, events>>
    /\ UNCHANGED <<t_state, total, t_logger, ctor_logger, progress_bar, start, end,
                   elapsed, now, raised, outcome, uses>>

\* The end of the guarded block, which took d ticks and completes
\* (exc = None) or raises exc: Timer.__exit__(exc_type, exc_val, exc_tb), then
\* what the with statement does with the exception.
Exit(exc, d) ==
    /\ t_state = "Running"
    /\ t_state' = "Finished"
    /\ now' = now + d
    /\ end' = now + d
    /\ elapsed' = (now + d) - start
    /\ LET closing == IF progress_bar # NoBar
                      THEN <<TimerEvent("close", progress_bar, 0, None, 0)>>
                      ELSE <<>>
           report == TimerEvent(ReportCall(t_logger), NoBar, 0, ReportDest(t_logger),
                                 (now + d) - start)
       IN /\ events' = events \o closing \o <<report>>
          /\ bars' = IF progress_bar # NoBar
                     THEN [bars EXCEPT ![progress_bar] = TqdmClose(@)]
                     ELSE bars
    /\ raised' = exc
    /\ outcome' = WithOutcome(exc, ExitReturn)
    /\ UNCHANGED <<total, t_logger, ctor_logger, progress_bar, start, uses, nupd>>

\* The level and the handlers of instance i: those of self.logger, which is
\* logging.getLogger(__name__) for every instance.
InstLevel(i) == level

InstHandlers(i) == handlers

\* ------------------------------------------------------------ specifications
vars == <<loggerVars, decoVars, timerVars>>

\* A Timer that no action of the specification touches.
TimerIdle == TimerInitWith(<<>>, None)

Init == LoggerInit /\ DecoInit /\ TimerIdle

\* The Logger: construction, configuration and the logging entries.
Next ==
    \/ \E i \in InstNames, file \in Paths \cup {None}, lvl \in CtorLevels :
           New(i, file, lvl) /\ UNCHANGED <<decoVars, timerVars>>
    \/ \E i \in Instances, p \in Paths :
           SetLogFile(i, p) /\ UNCHANGED <<decoVars, timerVars>>
    \/ \E i \in Instances :
           ClearLogFile(i) /\ UNCHANGED <<decoVars, timerVars>>
    \/ \E i \in Instances, name \in LevelArgs, file \in Paths \cup {None} :
           SetParams(i, name, file) /\ UNCHANGED <<decoVars, timerVars>>
    \/ \E i \in Instances, l \in Levels, msg \in Msgs :
           Log(i, l, msg) /\ UNCHANGED <<decoVars, timerVars>>
    \/ \E i \in Instances, msg \in Banners :
           ProcessingLog(i, msg) /\ UNCHANGED <<decoVars, timerVars>>

Spec == Init /\ [][Next]_vars

\* Construction and configuration alone.
NextConfig ==
    \/ \E i \in InstNames, file \in Paths \cup {None}, lvl \in CtorLevels :
           New(i, file, lvl) /\ UNCHANGED <<decoVars, timerVars>>
    \/ \E i \in Instances, p \in Paths :
           SetLogFile(i, p) /\ UNCHANGED <<decoVars, timerVars>>
    \/ \E i \in Instances :
           ClearLogFile(i) /\ UNCHANGED <<decoVars, timerVars>>
    \/ \E i \in Instances, name \in LevelArgs, file \in Paths \cup {None} :
           SetParams(i, name, file) /\ UNCHANGED <<decoVars, timerVars>>

SpecConfig == Init /\ [][NextConfig]_vars

\* The decorator: loggers are constructed and configured, wrapped functions
\* are called.
NextDecorator ==
    \/ \E i \in InstNames, lvl \in CtorLevels :
           New(i, None, lvl) /\ UNCHANGED <<decoVars, timerVars>>
    \/ \E i \in Instances, name \in LevelArgs :
           SetParams(i, name, None) /\ UNCHANGED <<decoVars, timerVars>>
    \/ \E shape \in Shapes, f \in Funcs,
          li \in Instances \cup {None}, args \in Args :
           CallWrapper(shape, f, li, args) /\ UNCHANGED timerVars

SpecDecorator == Init /\ [][NextDecorator]_vars

\* The Timer: one Timer object, constructed with any arguments.
InitTimer == LoggerInit /\ DecoInit /\ TimerInit

NextTimer ==
    \/ \E lg \in TimerLoggers : SetLogger(lg) /\ UNCHANGED <<loggerVars, decoVars>>
    \/ Enter /\ UNCHANGED <<loggerVars, decoVars>>
    \/ \E n \in Steps : Update(n) /\ UNCHANGED <<loggerVars, decoVars>>
    \/ \E exc \in Excs \cup {None}, d \in 0..MaxTime :
           Exit(exc, d) /\ UNCHANGED <<loggerVars, decoVars>>

SpecTimer == InitTimer /\ [][NextTimer]_vars

\* ------------------------------------------------------------------- claims
\* The event is the report of __exit__.
IsReport(e) == e.ev \in {"info", "print"}

\* The last event of the Timer's trace.
LastEvent == events[Len(events)]

\* How often `ev` was called on bar h.
CountEvents(ev, h) ==
    Cardinality({k \in 1..Len(events) : events[k].ev = ev /\ events[k].bar = h})

\* The step in which the guarded block ends and __exit__ runs.
ExitStep == t_state = "Running" /\ t_state' = "Finished"

\* Every bar is closed at most once, and exactly once when its scope has
\* ended; there is one report per ended scope; a close is directly followed
\* by the report, and with a total the report directly follows a close.
C1_Inv ==
    /\ \A h \in 1..Len(bars) :
           CountEvents("close", h) =
               IF t_state = "Running" /\ h = progress_bar THEN 0 ELSE 1
    /\ Cardinality({k \in 1..Len(events) : IsReport(events[k])})
           = uses - (IF t_state = "Running" THEN 1 ELSE 0)
    /\ \A k \in 1..Len(events) :
           /\ events[k].ev = "close" =>
                  k < Len(events) /\ IsReport(events[k + 1])
           /\ IsReport(events[k]) /\ total # <<>> =>
                  k > 1 /\ events[k - 1].ev = "close"

\* C1, as amended: on every exit from the guarded block, normal or by an
\* exception, the bar created on entry (if any) is closed exactly once and then
\* exactly one report with the elapsed time is emitted, through the Timer's
\* current logger (the one given at construction or set later by set_logger)
\* if it has one, otherwise on standard output.
C1_ExitClosesAndReports ==
    /\ []C1_Inv
    /\ [][ExitStep =>
              /\ Len(events') > Len(events)
              /\ events'[Len(events')].elapsed = end' - start'
              /\ IF t_logger # None
                 THEN /\ events'[Len(events')].ev = "info"
                      /\ events'[Len(events')].dest = t_logger
                 ELSE /\ events'[Len(events')].ev = "print"
                      /\ events'[Len(events')].dest = "stdout"]_vars

\* C1 witness: a scope with a progress bar has ended by an exception, and the
\* report went to a logger that was set after construction.
C1_Witness ==
    /\ t_state = "Finished"
    /\ raised # None
    /\ progress_bar # NoBar
    /\ ctor_logger = None
    /\ LastEvent.ev = "info"
    /\ LastEvent.dest = "L2"

\* C1 as stated: the report goes through the logger supplied at construction
\* if one was supplied, otherwise to standard output.
C1_AsStated ==
    /\ []C1_Inv
    /\ [][ExitStep =>
              /\ Len(events') > Len(events)
              /\ events'[Len(events')].elapsed = end' - start'
              /\ IF ctor_logger # None
                 THEN /\ events'[Len(events')].ev = "info"
                      /\ events'[Len(events')].dest = ctor_logger
                 ELSE /\ events'[Len(events')].ev = "print"
                      /\ events'[Len(events')].dest = "stdout"]_vars

\* C2: when the guarded block raises, the same exception leaves the with
\* statement after __exit__; when it does not raise, none does.
C2_FailurePropagates ==
    (t_state = "Finished" => outcome = raised)
        /\ (t_state # "Finished" => outcome = None)

\* C2 witness: a block guarded by a Timer with a logger and a progress bar
\* raised, and the exception is leaving the scope.
C2_Witness ==
    /\ t_state = "Finished"
    /\ raised = "ValueError"
    /\ outcome = "ValueError"
    /\ t_logger # None
    /\ progress_bar # NoBar

\* C10 as stated: outside a running scope update is a no-op that touches no
\* progress bar and no attribute; in a running scope it advances the bar by n
\* when a total was given and is a no-op otherwise.
C10_UpdateOnlyWhileRunning ==
    [][\A n \in Steps :
           Update(n) =>
               IF t_state = "Running" /\ total # <<>>
               THEN /\ bars'[progress_bar].n = bars[progress_bar].n + n
                    /\ timerAttrs' = timerAttrs
               ELSE /\ events' = events
                    /\ bars' = bars
                    /\ timerAttrs' = timerAttrs]_vars

\* The qualified name of f in a trace message.
QualName(f) ==
    IF f = "add"
    THEN <<"a", "p", "p", ".", "a", "d", "d">>
    ELSE <<"a", "p", "p", ".", "d", "i", "v">>

\* The logger the messages of the last call are due to.
DueLogger ==
    IF call.logger_instance # None THEN call.logger_instance ELSE Default

\* C6: when the wrapped function returns, the wrapper issued one debug
\* message "<module>.<name> BEGIN", then called the function once with the
\* original arguments, then issued one debug message "<module>.<name> END",
\* and returned the function's result; the messages went to the explicit
\* logger if one was supplied and to the module-level logger otherwise.
C6_BeginCallEndReturn ==
    (call # NoCall /\ ~(call.func = "div" /\ call.args[2] = 0)) =>
        /\ trace =
               <<[ev |-> "debug", logger |-> DueLogger, func |-> NoFunc, args |-> <<>>,
                  text |-> QualName(call.func) \o <<" ", "B", "E", "G", "I", "N">>],
                 [ev |-> "invoke", logger |-> None, func |-> call.func,
                  args |-> call.args, text |-> <<>>],
                 [ev |-> "debug", logger |-> DueLogger, func |-> NoFunc, args |-> <<>>,
                  text |-> QualName(call.func) \o <<" ", "E", "N", "D">>]>>
        /\ result.kind = "return"
        /\ result.value = (IF call.func = "add"
                           THEN call.args[1] + call.args[2]
                           ELSE call.args[1] \div call.args[2])

\* C6 witness: add, decorated with an explicit logger, was called with (2, 3)
\* and returned 5, and its two messages reached the console.
C6_Witness ==
    /\ call.func = "add"
    /\ call.args = <<2, 3>>
    /\ call.shape = "keyword"
    /\ call.logger_instance = "custom_logger"
    /\ result.value = 5
    /\ Len(trace) = 3
    /\ Len(console) >= 2

\* C7: when the wrapped function raises, BEGIN was issued, the function was
\* called, END was not issued, nothing is returned and the function's own
\* exception leaves the wrapper.
C7_RaiseSkipsEnd ==
    (call # NoCall /\ call.func = "div" /\ call.args[2] = 0) =>
        /\ trace =
               <<[ev |-> "debug", logger |-> DueLogger, func |-> NoFunc, args |-> <<>>,
                  text |-> QualName(call.func) \o <<" ", "B", "E", "G", "I", "N">>],
                 [ev |-> "invoke", logger |-> None, func |-> call.func,
                  args |-> call.args, text |-> <<>>]>>
        /\ result.kind = "raise"
        /\ result.exc = "ZeroDivisionError"

\* C7 witness: div was called with a zero divisor and raised.
C7_Witness ==
    /\ call.func = "div"
    /\ call.args = <<4, 0>>
    /\ result.kind = "raise"
    /\ Len(trace) = 2

\* The paths of the FileHandlers of a handler list.
FilePaths(hs) == {hs[k].path : k \in {j \in 1..Len(hs) : IsFile(hs[j])}}

\* The step attaches a file sink for p through instance i.
Attach(i, p) == SetLogFile(i, p) \/ \E name \in LevelArgs : SetParams(i, name, p)

\* C3 as stated: attaching a file sink for p leaves p empty and as the one
\* file sink, whatever was attached before, and every message logged afterwards
\* that passes the threshold is appended to p.
C3_AttachTruncatesAndReplaces ==
    [][/\ \A i \in Instances, p \in Paths :
              Attach(i, p) => files'[p] = <<>> /\ FilePaths(handlers') = {p}
       /\ \A i \in Instances, l \in Levels, msg \in Msgs :
              (Log(i, l, msg) /\ l >= level /\ log_file[i] # None) =>
                  files'[log_file[i]] = Append(files[log_file[i]], Format(l, msg))]_vars

\* C4 as stated: with L the threshold configured last (by a constructor or by
\* set_params), a message logged at level l appears on the console, and in the
\* file of an attached file sink, if and only if l >= L.
C4_ThresholdFilter ==
    [][\A i \in Instances, l \in Levels, msg \in Msgs :
           Log(i, l, msg) =>
               /\ (console' # console) <=> (l >= InstLevel(i))
               /\ \A p \in FilePaths(handlers) :
                      (files'[p] # files[p]) <=> (l >= InstLevel(i))]_vars

\* The console handler that instance i added is attached.
HasConsole(i) == \E k \in StreamHandlers : handlers[k].owner = i

\* C5: at most one file sink is attached and the console sink of every
\* instance stays attached; after set_params without a file path, and after
\* clear_log_file, no file sink is attached.
C5_OneFileSink ==
    /\ [](Cardinality(FileHandlers) <= 1 /\ \A i \in Instances : HasConsole(i))
    /\ [][\A i \in Instances :
              (ClearLogFile(i) \/ \E name \in LevelArgs : SetParams(i, name, None))
                  => FilePaths(handlers') = {}]_vars

\* C5 witness: two instances exist, a file sink had been attached through the
\* caller's instance, and it has been removed since.
C5_Witness ==
    /\ Instances = InstNames
    /\ log_file["custom_logger"] = "q"
    /\ log_file[Default] = None
    /\ FileHandlers = {}
    /\ Cardinality(StreamHandlers) = 2

\* The step is a construction or configuration call on instance b.
ConfigBy(b) ==
    \/ \E file \in Paths \cup {None}, lvl \in CtorLevels : New(b, file, lvl)
    \/ \E name \in LevelArgs, file \in Paths \cup {None} : SetParams(b, name, file)
    \/ \E p \in Paths : SetLogFile(b, p)
    \/ ClearLogFile(b)

\* C8 as stated: constructing or configuring instance b leaves the level and
\* the sinks of another instance a unchanged, and a message logged through a is
\* written once; the module-level instance starts at INFO without a file sink.
C8_IndependentInstances ==
    /\ level = 20 /\ FileHandlers = {}
    /\ [][/\ \A b \in InstNames : \A a \in Instances \ {b} :
                 ConfigBy(b) =>
                     /\ InstLevel(a)' = InstLevel(a)
                     /\ InstHandlers(a)' = InstHandlers(a)
          /\ \A a \in Instances, l \in Levels, msg \in Msgs :
                 Log(a, l, msg) => Len(console') <= Len(console) + 1]_vars

\* The records the step appended to the console and to the files.
NewRecords ==
    {console'[k] : k \in (Len(console) + 1)..Len(console')}
        \cup UNION {{files'[p][k] : k \in (Len(files[p]) + 1)..Len(files'[p])} :
                       p \in Paths}

\* The first line of a record of level INFO, before the message's own lines.
InfoPrefix == <<"<asctime>", " ", "-", " ", "I", "N", "F", "O", " ", "-", " ">>

\* A line of 40 "=".
Sep40 == [k \in 1..40 |-> "="]

\* C9, as amended: processing_log(X) emits, at INFO level, a record whose first
\* line is the "<timestamp> - INFO - " prefix alone and whose next lines are a
\* separator of exactly 40 "=", the line or lines of X, and the same separator;
\* it emits nothing when the threshold configured last (by a constructor or by
\* set_params) is above INFO.
C9_SectionBanner ==
    [][\A i \in Instances, msg \in Banners :
           ProcessingLog(i, msg) =>
               /\ \A r \in NewRecords :
                      SplitLines(r) = <<InfoPrefix, Sep40>> \o SplitLines(msg) \o <<Sep40>>
               /\ (level > 20) => NewRecords = {}
               /\ (level <= 20) => Len(console') > Len(console)]_vars

\* C9 witness: a banner for the one-line message "a" is on the console: the
\* prefix line, the separator, "a", the separator.
C9_Witness ==
    \E k \in 1..Len(console) :
        /\ Len(SplitLines(console[k])) = 4
        /\ SplitLines(console[k])[2] = Sep40
        /\ SplitLines(console[k])[3] = <<"a">>

\* C9 as stated: the output of processing_log(X) is exactly three lines: a
\* separator of 40 "=", X, a separator of 40 "=".
C9_AsStated ==
    [][\A i \in Instances, msg \in Banners :
           ProcessingLog(i, msg) =>
               /\ \A r \in NewRecords : SplitLines(r) = <<Sep40, msg, Sep40>>
               /\ (level > 20) => NewRecords = {}
               /\ (level <= 20) => Len(console') > Len(console)]_vars

====
